---- MODULE Spec2Model ----
(***************************************************************************)
(* Model of src/file_operations/waitforfile.py: the module-level code run  *)
(* at import and the polling loop of wait_for_download, running against a  *)
(* folder that other processes (a browser writing a download) change.      *)
(***************************************************************************)
EXTENDS Integers, Sequences, FiniteSets, TLC

VARIABLES
    pc,             \* position of the importing/calling thread
    srcExists,      \* downloaded_file_path exists                (line 108)
    dstState,       \* state of final_fodler                      (line 109)
    folderExists,   \* folder_path is an existing directory
    entries,        \* the directory entries of folder_path
    now,            \* time.time()
    ticks,          \* clock advances that were not a sleep of the caller
    envLeft,        \* changes other processes may still make to the folder
    arg_before,     \* argument before_files (None or a list, as a set)
    file_name,      \* argument file_name (None or a string)
    timeout,        \* argument timeout
    check_interval, \* argument check_interval
    before_files,   \* local before_files after line 46
    start_time,     \* local start_time
    current_files,  \* local current_files
    new_files,      \* local new_files
    valid_files,    \* local valid_files
    todo,           \* candidates of this poll not yet probed
    handles,        \* files the caller holds open
    result,         \* how the call ended
    polls,          \* directory listings done by the loop (line 51)
    sleeps,         \* time.sleep calls done
    probeLog,       \* outcomes of the open probes so far
    existedAtCall,  \* folder_path existed when the call started
    polled,         \* the entries as they were at the last listing
    w,              \* the calls of two threads that watch the same folder
    bpc,            \* position of main() of python_prepare_folders.py
    cwd,            \* state of os.getcwd(): "ok", "readonly" or "missing"
    old,            \* the data root and what lies under it before the run
    visited,        \* the old entries shutil.rmtree has dealt with
    made,           \* the directories os.makedirs has created
    err,            \* the exception raised inside main's try block
    ret,            \* the value initialize() returned
    out,            \* knio.output_tables[0]
    callee,         \* the function of src/file_operations that is called
    lpc,            \* position of get_latest_file
    directory,      \* the directory get_latest_file is asked about
    files,          \* local files of get_latest_file (line 22)
    latest_file,    \* how get_latest_file ended
    changed         \* another process changed the directory during the call

vars == <<pc, srcExists, dstState, folderExists, entries, now, ticks, envLeft,
          arg_before, file_name, timeout, check_interval, before_files,
          start_time, current_files, new_files, valid_files, todo, handles,
          result, polls, sleeps, probeLog, existedAtCall, polled, w,
          bpc, cwd, old, visited, made, err, ret, out, callee,
          lpc, directory, files, latest_file, changed>>

\* the state of the other scenarios, which one import and one call leave alone
bootVars == <<bpc, cwd, old, visited, made, err, ret, out>>
latestVars == <<lpc, directory, files, latest_file, changed>>
otherVars == <<w, bootVars, latestVars>>

fsVars == <<srcExists, dstState, folderExists, entries>>
argVars == <<arg_before, file_name, timeout, check_interval, callee>>
localVars == <<before_files, start_time, current_files, new_files, valid_files,
               todo, polled>>

----------------------------------------------------------------------------
(* Bounds of the model *)

MaxTimeout == 2
MaxInterval == 2
MaxEnv == 2
MaxTicks == 1

----------------------------------------------------------------------------
(* Values *)

None == "None"

FolderPath == "dl"

Names == {"a.txt", "b.txt", "b.txt.crdownload", "c.txt", "c.txt.part", "d.tmp"}

Absent == [kind |-> "absent", locked |-> FALSE, ctime |-> 0]
File(t) == [kind |-> "file", locked |-> FALSE, ctime |-> t]
LockedFile(t) == [kind |-> "file", locked |-> TRUE, ctime |-> t]
Dir(t) == [kind |-> "dir", locked |-> FALSE, ctime |-> t]

\* the names other processes create while the call runs
Created == {"b.txt", "b.txt.crdownload", "c.txt", "c.txt.part"}

\* the names a downloader gives a file it is still writing; nobody probes or
\* locks these
Partial == {"b.txt.crdownload", "c.txt.part", "d.tmp"}

\* the renames a downloader does when a file is complete
Renames == {<<"b.txt.crdownload", "b.txt">>, <<"c.txt.part", "c.txt">>}

EmptyFolder == [n \in Names |-> Absent]

Pending == [kind |-> "pending", value |-> None, line |-> 0]
Return(v, l) == [kind |-> "return", value |-> v, line |-> l]
Raise(e, l) == [kind |-> "raise", value |-> e, line |-> l]

----------------------------------------------------------------------------
(* Library functions the code calls *)

\* str.endswith
EndsWith(s, suf) ==
    /\ Len(s) >= Len(suf)
    /\ SubSeq(s, Len(s) - Len(suf) + 1, Len(s)) = suf

\* os.path.join(folder_path, f)
JoinPath(folder, f) == folder \o "/" \o f

\* os.listdir(folder_path) of an existing folder, as a set
ListDir == {n \in Names : entries[n].kind # "absent"}

\* open(file_path, "rb"): the outcomes the platform can give for an entry.
\* Opening a directory raises IsADirectoryError on POSIX and PermissionError
\* on Windows.
OpenOutcomes(e) ==
    CASE e.kind = "absent" -> {"FileNotFoundError"}
      [] e.kind = "dir" -> {"IsADirectoryError", "PermissionError"}
      [] e.kind = "file" /\ e.locked -> {"PermissionError"}
      [] OTHER -> {"ok"}

----------------------------------------------------------------------------
(* wait_for_download, expression by expression *)

\* line 46: the condition `if before_files`
BaselineGiven(arg) == arg.given /\ arg.names # {}

\* the loop test leaving one time unit early
LoopCondEarly(t, start, limit) == t - start + 1 < limit

\* line 50: the loop condition
LoopCond(t, start, limit) == t - start < limit

\* line 52
NewFiles(cur, before) == cur \ before

\* line 55: the in-progress suffixes
TempSuffixes == {".crdownload", ".part", ".tmp"}

\* the suffix test without '.part'
InProgressNoPart(f) == EndsWith(f, ".crdownload") \/ EndsWith(f, ".tmp")

\* line 55: f.endswith(('.crdownload', '.part', '.tmp'))
InProgress(f) == \E suf \in TempSuffixes : EndsWith(f, suf)

\* line 55
ValidFiles(new) == {f \in new : ~InProgress(f)}

\* line 61: the condition `if file_name`
NameGiven(fn) == fn # None /\ fn # ""

\* the probed names when file_name is ignored
CandidatesAnyName(valid, fn) == valid

\* lines 61-63 and 69-70: the names this poll will probe
Candidates(valid, fn) ==
    IF NameGiven(fn) THEN (IF fn \in valid THEN {fn} ELSE {}) ELSE valid

\* a probe with no exception handler
SwallowedNone(exc) == FALSE

\* lines 67 and 75: the exceptions the probe's handler swallows
Swallowed(exc) == exc = "PermissionError"

\* lines 65 and 73: the line of the open, by branch
OpenLine(fn) == IF NameGiven(fn) THEN 65 ELSE 73

\* lines 66 and 74: the line of the return, by branch
ReturnLine(fn) == IF NameGiven(fn) THEN 66 ELSE 74

----------------------------------------------------------------------------
(* Initial states: the arguments of one call and the folder before it *)

\* Entries that were there before the call were created before it: the clock
\* reads 0 when the module is imported.
InitialFolders ==
    { EmptyFolder,
      [EmptyFolder EXCEPT !["a.txt"] = File(-1)],
      [EmptyFolder EXCEPT !["a.txt"] = File(-1), !["b.txt"] = File(-1)],
      [EmptyFolder EXCEPT !["a.txt"] = File(-1), !["b.txt"] = LockedFile(-1)],
      [EmptyFolder EXCEPT !["a.txt"] = File(-1), !["b.txt.crdownload"] = File(-1)],
      [EmptyFolder EXCEPT !["b.txt"] = File(-1), !["c.txt"] = File(-1),
                          !["d.tmp"] = File(-1)],
      [EmptyFolder EXCEPT !["b.txt"] = File(-1), !["c.txt"] = Dir(-1)],
      [EmptyFolder EXCEPT !["b.txt"] = File(-1), !["c.txt"] = File(-2)] }

\* the argument before_files: None, or a list (its elements as a set)
NoList == [given |-> FALSE, names |-> {}]
List(S) == [given |-> TRUE, names |-> S]

Baselines == {NoList, List({}), List({"a.txt"}), List({"a.txt", "c.txt"})}

FileNames == {None, "b.txt", "b.txt.crdownload"}

\* no second scenario is running
NoThreads == <<>>

\* python_prepare_folders.py is not run
NoBoot ==
    /\ bpc = "off"
    /\ cwd = "ok"
    /\ old = <<>>
    /\ visited = {}
    /\ made = {}
    /\ err = None
    /\ ret = None
    /\ out = None

\* get_latest_file is not called
NoLatest ==
    /\ lpc = "off"
    /\ directory = <<>>
    /\ files = {}
    /\ latest_file = Pending
    /\ changed = FALSE

Init ==
    /\ pc = "import"
    /\ srcExists \in BOOLEAN
    /\ dstState \in {"dir", "dirWithFile"}
    /\ folderExists \in BOOLEAN
    /\ entries \in (IF folderExists THEN InitialFolders ELSE {EmptyFolder})
    /\ now = 0
    /\ ticks = 0
    /\ envLeft = MaxEnv
    /\ arg_before \in Baselines
    /\ file_name \in FileNames
    /\ callee = "wait_for_download"
    /\ timeout \in 0..MaxTimeout
    /\ check_interval \in 1..MaxInterval
    /\ before_files = {}
    /\ start_time = 0
    /\ current_files = {}
    /\ new_files = {}
    /\ valid_files = {}
    /\ todo = {}
    /\ handles = {}
    /\ result = Pending
    /\ polls = 0
    /\ sleeps = 0
    /\ probeLog = {}
    /\ existedAtCall = FALSE
    /\ polled = EmptyFolder
    /\ w = NoThreads
    /\ NoBoot
    /\ NoLatest

----------------------------------------------------------------------------
(* Module level, lines 108-110: shutil.move(downloaded_file_path,          *)
(* final_fodler) runs when the module is imported.                         *)

ModuleLoad ==
    /\ pc = "import"
    /\ IF ~srcExists
       THEN /\ pc' = "import_error"
            /\ result' = Raise("FileNotFoundError", 110)
            /\ UNCHANGED <<srcExists, dstState>>
       ELSE IF dstState = "dirWithFile"
       THEN /\ pc' = "import_error"
            /\ result' = Raise("shutil.Error", 110)
            /\ UNCHANGED <<srcExists, dstState>>
       ELSE /\ pc' = "ready"
            /\ srcExists' = FALSE
            /\ dstState' = "dirWithFile"
            /\ UNCHANGED result
    /\ UNCHANGED <<folderExists, entries, now, ticks, envLeft, argVars,
                   localVars, handles, polls, sleeps, probeLog, existedAtCall>>
    /\ UNCHANGED otherVars

----------------------------------------------------------------------------
(* wait_for_download *)

\* lines 46-48
Call ==
    /\ pc = "ready"
    /\ existedAtCall' = folderExists
    /\ IF BaselineGiven(arg_before)
       THEN /\ before_files' = arg_before.names
            /\ start_time' = now
            /\ pc' = "loop"
            /\ UNCHANGED result
       ELSE IF folderExists
       THEN /\ before_files' = ListDir
            /\ start_time' = now
            /\ pc' = "loop"
            /\ UNCHANGED result
       ELSE /\ result' = Raise("FileNotFoundError", 46)
            /\ pc' = "done"
            /\ UNCHANGED <<before_files, start_time>>
    /\ UNCHANGED <<fsVars, now, ticks, envLeft, argVars, current_files,
                   new_files, valid_files, todo, polled, handles, polls,
                   sleeps, probeLog>>
    /\ UNCHANGED otherVars

\* lines 50-63, 69-70 and 80-81: the loop test, the listing and the filter
Poll ==
    /\ pc = "loop"
    /\ IF ~LoopCond(now, start_time, timeout)
       THEN /\ result' = Return(None, 81)
            /\ pc' = "done"
            /\ UNCHANGED <<current_files, new_files, valid_files, todo,
                           polled, polls>>
       ELSE IF ~folderExists
       THEN /\ result' = Raise("FileNotFoundError", 51)
            /\ pc' = "done"
            /\ UNCHANGED <<current_files, new_files, valid_files, todo,
                           polled, polls>>
       ELSE /\ current_files' = ListDir
            /\ new_files' = NewFiles(current_files', before_files)
            /\ valid_files' = ValidFiles(new_files')
            /\ todo' = Candidates(valid_files', file_name)
            /\ polled' = entries
            /\ polls' = polls + 1
            /\ pc' = IF valid_files' = {} \/ todo' = {} THEN "sleep" ELSE "probe"
            /\ UNCHANGED result
    /\ UNCHANGED <<fsVars, now, ticks, envLeft, argVars, before_files,
                   start_time, handles, sleeps, probeLog, existedAtCall>>
    /\ UNCHANGED otherVars

\* lines 62-68 and 70-76: one open probe
Probe ==
    /\ pc = "probe"
    /\ \E f \in todo : \E o \in OpenOutcomes(entries[f]) :
         /\ probeLog' = probeLog \cup {o}
         /\ IF o = "ok"
            THEN /\ handles' = {JoinPath(FolderPath, f)}
                 /\ pc' = "opened"
                 /\ UNCHANGED <<todo, result>>
            ELSE IF Swallowed(o)
            THEN /\ todo' = todo \ {f}
                 /\ pc' = IF todo' = {} THEN "sleep" ELSE "probe"
                 /\ UNCHANGED <<handles, result>>
            ELSE /\ result' = Raise(o, OpenLine(file_name))
                 /\ pc' = "done"
                 /\ UNCHANGED <<handles, todo>>
    /\ UNCHANGED <<fsVars, now, ticks, envLeft, argVars, before_files,
                   start_time, current_files, new_files, valid_files, polled,
                   polls, sleeps, existedAtCall>>
    /\ UNCHANGED otherVars

\* lines 66 and 74: return from inside the with block, which closes the file
ReturnPath ==
    /\ pc = "opened"
    /\ \E p \in handles :
         /\ result' = Return(p, ReturnLine(file_name))
         /\ handles' = handles \ {p}
    /\ pc' = "done"
    /\ UNCHANGED <<fsVars, now, ticks, envLeft, argVars, localVars, polls,
                   sleeps, probeLog, existedAtCall>>
    /\ UNCHANGED otherVars

\* lines 58 and 78: time.sleep(check_interval)
Sleep ==
    /\ pc = "sleep"
    /\ now' = now + check_interval
    /\ sleeps' = sleeps + 1
    /\ pc' = "loop"
    /\ UNCHANGED <<fsVars, ticks, envLeft, argVars, localVars, handles, result,
                   polls, probeLog, existedAtCall>>
    /\ UNCHANGED otherVars

----------------------------------------------------------------------------
(* The environment: time passing and other processes changing the folder   *)

\* The caller reads the folder and the clock at the loop test with its listing
\* and at each probe; a change made while it sleeps is seen at the next
\* listing, one made after a listing at the next probe (in get_new_file, at
\* the os.path.getctime calls; in wait_for_file_validation, at the open).
Running == pc \in {"probe", "sleep", "new_ctime", "new_sleep", "wait_probe",
                   "wait_sleep"}

envFrame == <<srcExists, dstState, pc, now, ticks, argVars, localVars,
              handles, result, polls, sleeps, probeLog, existedAtCall>>

\* time passes while the caller lists or probes
Tick ==
    /\ Running
    /\ ticks < MaxTicks
    /\ LoopCond(now, start_time, timeout)
    /\ now' = now + 1
    /\ ticks' = ticks + 1
    /\ UNCHANGED <<fsVars, envLeft, pc, argVars, localVars, handles, result,
                   polls, sleeps, probeLog, existedAtCall>>
    /\ UNCHANGED otherVars

\* a download starts under an in-progress name, or a file or directory appears
CreateEntry ==
    /\ Running /\ folderExists /\ envLeft > 0
    /\ \E n \in Created : \E e \in {File(now), LockedFile(now), Dir(now)} :
         /\ entries[n].kind = "absent"
         /\ n \in Partial => e = File(now)
         /\ entries' = [entries EXCEPT ![n] = e]
    /\ envLeft' = envLeft - 1
    /\ UNCHANGED <<folderExists, envFrame>>
    /\ UNCHANGED otherVars

\* a finished download is renamed from its in-progress name to its final name
RenameEntry ==
    /\ Running /\ folderExists /\ envLeft > 0
    /\ \E r \in Renames :
         /\ entries[r[1]].kind # "absent"
         /\ entries[r[2]].kind = "absent"
         /\ entries' = [entries EXCEPT ![r[2]] = entries[r[1]],
                                       ![r[1]] = Absent]
    /\ envLeft' = envLeft - 1
    /\ UNCHANGED <<folderExists, envFrame>>
    /\ UNCHANGED otherVars

\* an entry is deleted
DeleteEntry ==
    /\ Running /\ folderExists /\ envLeft > 0
    /\ \E n \in Names :
         /\ entries[n].kind # "absent"
         /\ entries' = [entries EXCEPT ![n] = Absent]
    /\ envLeft' = envLeft - 1
    /\ UNCHANGED <<folderExists, envFrame>>
    /\ UNCHANGED otherVars

\* a writer releases or takes its exclusive hold on a file
SetLock ==
    /\ Running /\ folderExists /\ envLeft > 0
    /\ \E n \in Names :
         /\ entries[n].kind = "file"
         /\ n \notin Partial
         /\ entries' = [entries EXCEPT ![n].locked = ~entries[n].locked]
    /\ envLeft' = envLeft - 1
    /\ UNCHANGED <<folderExists, envFrame>>
    /\ UNCHANGED otherVars

\* the folder itself is removed
RemoveFolder ==
    /\ Running /\ folderExists /\ envLeft > 0
    /\ folderExists' = FALSE
    /\ entries' = EmptyFolder
    /\ envLeft' = envLeft - 1
    /\ UNCHANGED envFrame
    /\ UNCHANGED otherVars

Next ==
    \/ ModuleLoad
    \/ Call
    \/ Poll
    \/ Probe
    \/ ReturnPath
    \/ Sleep
    \/ Tick
    \/ CreateEntry
    \/ RenameEntry
    \/ DeleteEntry
    \/ SetLock
    \/ RemoveFolder

Spec == Init /\ [][Next]_vars

----------------------------------------------------------------------------
(* Vocabulary of the properties, independent of the code's own filter      *)

Suffixes == {".crdownload", ".part", ".tmp"}
HasSuffix(f) == \E suf \in Suffixes : EndsWith(f, suf)

Done == pc = "done"
TimedOut == Done /\ result = Return(None, 81)
Found(f) == Done /\ result.kind = "return" /\ result.value = JoinPath(FolderPath, f)
FoundAny == \E f \in Names : Found(f)
Raised == Done /\ result.kind = "raise"

\* a poll has listed the folder and the call is probing or has returned a path
Probing == pc \in {"probe", "opened"} \/ FoundAny

----------------------------------------------------------------------------
(* C1 *)

\* C1: the returned path never names an entry ending in .crdownload, .part
\* or .tmp; a poll whose only new entries carry such a suffix probes nothing
\* and returns nothing, and a name is returned only at a poll whose listing
\* held it under that name (for b.txt: a poll taken after the rename).
C1_NoInProgressFound ==
    /\ \A f \in Names : Found(f) => ~HasSuffix(f) /\ f \in current_files
                                    /\ polled[f].kind # "absent"
    /\ Probing => \E f \in new_files : ~HasSuffix(f)
    /\ pc = "probe" => \A f \in todo : ~HasSuffix(f)

\* b.txt.crdownload, in the folder before the call, was renamed to b.txt
\* between two polls (b.txt is older than the call and was not there at the
\* first poll, which probed nothing) and b.txt was returned; c.txt.part is
\* in the folder and new.
C1_Witness ==
    /\ Found("b.txt")
    /\ arg_before = List({"a.txt"})
    /\ polls >= 2
    /\ entries["b.txt.crdownload"].kind = "absent"
    /\ probeLog = {"ok"}
    /\ entries["b.txt"].ctime < 0
    /\ "c.txt.part" \in new_files

----------------------------------------------------------------------------
(* C2 *)

\* C2: with file_name set, the only path ever returned is
\* folder_path/file_name, and only at a poll where file_name was listed, is
\* not in the baseline, has no in-progress suffix and its open succeeded;
\* no other name is ever probed.
C2_OnlyExpectedName ==
    file_name # None =>
      /\ \A f \in Names : Found(f) =>
            /\ f = file_name
            /\ f \in current_files
            /\ f \notin before_files
            /\ ~HasSuffix(f)
            /\ polled[f].kind # "absent"
            /\ "ok" \in probeLog
      /\ pc = "probe" => todo = {file_name}
      /\ pc = "opened" => handles = {JoinPath(FolderPath, file_name)}

\* b.txt was awaited and returned while c.txt was new and valid too.
C2_Witness ==
    /\ file_name = "b.txt"
    /\ Found("b.txt")
    /\ "c.txt" \in valid_files

----------------------------------------------------------------------------
(* C3 *)

\* C3: a call on a folder that does not exist ends at once with a not-found
\* error, whatever the baseline and the timeout: no listing of the loop, no
\* sleep, and never the timeout result.
C3_MissingFolderFailsFast ==
    (Done /\ ~existedAtCall) =>
      /\ result.kind = "raise"
      /\ result.value = "FileNotFoundError"
      /\ polls = 0
      /\ sleeps = 0

----------------------------------------------------------------------------
(* C4 *)

\* C4: a failed open probe never ends the call: no exception leaves the call
\* from the open of line 65 or line 73.
C4_ProbeFailureNeverRaises ==
    ~(Raised /\ result.line \in {65, 73})

----------------------------------------------------------------------------
(* C5 *)

\* C5: the timeout result is returned only when the time elapsed since the
\* start of the call is at least timeout; and a call on a folder that exists
\* throughout, in which no candidate was ever there to probe, ends with the
\* timeout result and not with an exception.
C5_TimeoutNotEarly ==
    /\ TimedOut => now - start_time >= timeout
    /\ (Done /\ folderExists /\ probeLog = {}) => TimedOut

\* timeout=2, check_interval=1, nothing new in an existing folder: two polls,
\* two sleeps, then the timeout result.
C5_Witness ==
    /\ TimedOut
    /\ timeout = 2 /\ check_interval = 1
    /\ folderExists /\ probeLog = {}
    /\ polls = 2 /\ sleeps = 2
    /\ now - start_time = 2

----------------------------------------------------------------------------
(* C6 *)

\* C6: with file_name set, a call all of whose probes failed with a
\* permission error (the file stayed exclusively locked) in a folder that
\* exists throughout ends with the timeout result: no path, no exception.
C6_LockedThroughoutTimesOut ==
    (Done /\ file_name # None /\ folderExists /\ probeLog = {"PermissionError"})
      => TimedOut

\* b.txt, new relative to the supplied baseline, was locked from before the
\* call to its end: both polls of the window probed it and failed.
C6_Witness ==
    /\ TimedOut
    /\ file_name = "b.txt"
    /\ probeLog = {"PermissionError"}
    /\ envLeft = MaxEnv
    /\ timeout = 2 /\ check_interval = 1
    /\ polls = 2 /\ sleeps = 2
    /\ "b.txt" \in new_files
    /\ entries["b.txt"].kind = "file" /\ entries["b.txt"].locked

----------------------------------------------------------------------------
(* C7 *)

\* the open of entry e succeeds on every platform
Openable(e) == e.kind = "file" /\ ~e.locked

\* the qualifying candidates of the last poll: new relative to the baseline,
\* no in-progress suffix, open succeeds
Qualifying ==
    {f \in current_files \ before_files : ~HasSuffix(f) /\ Openable(polled[f])}

\* no other process changed the folder during the call
StaticFolder == envLeft = MaxEnv /\ folderExists

\* C7: with file_name unset, when a poll finds exactly one qualifying
\* candidate, the call returns that candidate's path, whatever other new
\* entries that do not qualify are there at that poll (stated for a folder
\* that does not change during the call).
C7_SingleCandidateReturned ==
    \A q \in Names :
      (Done /\ polls > 0 /\ file_name = None /\ StaticFolder /\ Qualifying = {q})
        => Found(q)

----------------------------------------------------------------------------
(* C8 *)

\* the names in lexicographic order
NameOrder == <<"a.txt", "b.txt", "b.txt.crdownload", "c.txt", "c.txt.part", "d.tmp">>
Rank(f) == CHOOSE i \in 1..Len(NameOrder) : NameOrder[i] = f

\* f is chosen before g: created later, or at the same time with the smaller name
Before(f, g) ==
    \/ polled[f].ctime > polled[g].ctime
    \/ polled[f].ctime = polled[g].ctime /\ Rank(f) <= Rank(g)

\* C8: with file_name unset, of the candidates that qualify at a poll the
\* one created last is returned, and of two created at the same time the
\* one with the smaller name (stated for a folder that does not change
\* during the call).
C8_LatestCreatedReturned ==
    \A f \in Names :
      (Found(f) /\ file_name = None /\ StaticFolder)
        => \A g \in Qualifying : Before(f, g)

----------------------------------------------------------------------------
(* C9 *)

\* C9: at every poll the new names are the current listing minus the
\* baseline the caller supplied, for every supplied baseline, the empty one
\* included.
C9_NewIsCurrentMinusSupplied ==
    (polls > 0 /\ arg_before.given) =>
      new_files = current_files \ arg_before.names

----------------------------------------------------------------------------
(* C10 *)

\* C10: no step of the watcher, from the import of the module to the return
\* of the call, changes the file system, and no file is left open when the
\* call has returned.
C10_WatcherChangesNothing ==
    /\ [][(pc' # pc \/ todo' # todo) => UNCHANGED fsVars]_vars
    /\ [](pc = "done" => handles = {})

----------------------------------------------------------------------------
(* Two threads call wait_for_download on the same folder with the same     *)
(* before_files argument and file_name unset.  Each call has its own       *)
(* locals; the folder and the clock are shared.                            *)

Threads == {1, 2}

\* the locals of one call
IdleThread ==
    [pc |-> "ready", before_files |-> {}, start_time |-> 0,
     current_files |-> {}, new_files |-> {}, todo |-> {}, wake |-> 0,
     result |-> Pending]

TwoFolders ==
    { [EmptyFolder EXCEPT !["a.txt"] = File(-1)],
      [EmptyFolder EXCEPT !["a.txt"] = File(-1), !["b.txt"] = File(-1)] }

\* what the two calls never touch
twoFrame == <<pc, srcExists, dstState, folderExists, ticks, argVars, localVars,
              handles, result, polls, sleeps, probeLog, existedAtCall, bootVars,
              latestVars>>

InitTwo ==
    /\ pc = "threads"
    /\ srcExists = FALSE
    /\ dstState = "dirWithFile"
    /\ folderExists = TRUE
    /\ entries \in TwoFolders
    /\ now = 0
    /\ ticks = 0
    /\ envLeft = MaxEnv
    /\ arg_before \in {NoList, List({"a.txt"})}
    /\ file_name = None
    /\ callee = "wait_for_download"
    /\ timeout \in 1..MaxTimeout
    /\ check_interval \in 1..MaxInterval
    /\ before_files = {}
    /\ start_time = 0
    /\ current_files = {}
    /\ new_files = {}
    /\ valid_files = {}
    /\ todo = {}
    /\ handles = {}
    /\ result = Pending
    /\ polls = 0
    /\ sleeps = 0
    /\ probeLog = {}
    /\ existedAtCall = TRUE
    /\ polled = EmptyFolder
    /\ w = [i \in Threads |-> IdleThread]
    /\ NoBoot
    /\ NoLatest

\* the names the other calls have already returned
ReturnedByOthers(i) ==
    {f \in Names : \E j \in Threads \ {i} :
        w[j].result = Return(JoinPath(FolderPath, f), 74)}

\* a baseline from which the files other calls returned are taken out
SeenBaselineShared(i) == w[i].before_files \cup ReturnedByOthers(i)

\* line 52: before_files is the set this call built at line 46; no call
\* writes to it after that, its own return included
SeenBaseline(i) == w[i].before_files

\* lines 46-48
TCall(i) ==
    /\ w[i].pc = "ready"
    /\ w' = [w EXCEPT ![i].before_files =
                          IF BaselineGiven(arg_before) THEN arg_before.names
                                                       ELSE ListDir,
                      ![i].start_time = now,
                      ![i].pc = "loop"]
    /\ UNCHANGED <<twoFrame, entries, now, envLeft, polled>>

\* lines 50-63, 69-70 and 80-81
TPoll(i) ==
    /\ w[i].pc = "loop"
    /\ IF ~LoopCond(now, w[i].start_time, timeout)
       THEN w' = [w EXCEPT ![i].result = Return(None, 81), ![i].pc = "done"]
       ELSE LET cur == ListDir
                new == NewFiles(cur, SeenBaseline(i))
                cand == Candidates(ValidFiles(new), file_name)
            IN  w' = [w EXCEPT ![i].current_files = cur,
                               ![i].new_files = new,
                               ![i].todo = cand,
                               ![i].pc = IF cand = {} THEN "sleep" ELSE "probe"]
    /\ UNCHANGED <<twoFrame, entries, now, envLeft, polled>>

\* lines 70-76
TProbe(i) ==
    /\ w[i].pc = "probe"
    /\ \E f \in w[i].todo : \E o \in OpenOutcomes(entries[f]) :
         IF o = "ok"
         THEN w' = [w EXCEPT ![i].result = Return(JoinPath(FolderPath, f), 74),
                             ![i].pc = "done"]
         ELSE IF Swallowed(o)
         THEN w' = [w EXCEPT ![i].todo = @ \ {f},
                             ![i].pc = IF w[i].todo = {f} THEN "sleep"
                                                          ELSE "probe"]
         ELSE w' = [w EXCEPT ![i].result = Raise(o, 73), ![i].pc = "done"]
    /\ UNCHANGED <<twoFrame, entries, now, envLeft, polled>>

\* lines 58 and 78: the thread starts to sleep
TSleep(i) ==
    /\ w[i].pc = "sleep"
    /\ w' = [w EXCEPT ![i].wake = now + check_interval, ![i].pc = "asleep"]
    /\ UNCHANGED <<twoFrame, entries, now, envLeft, polled>>

\* lines 58 and 78: time.sleep returns
TWake(i) ==
    /\ w[i].pc = "asleep"
    /\ now >= w[i].wake
    /\ w' = [w EXCEPT ![i].pc = "loop"]
    /\ UNCHANGED <<twoFrame, entries, now, envLeft, polled>>

\* time passes while every thread that still runs is asleep
TTick ==
    /\ \E i \in Threads : w[i].pc = "asleep"
    /\ \A i \in Threads : w[i].pc \in {"asleep", "done"}
    /\ \A i \in Threads : w[i].pc = "asleep" => now < w[i].wake
    /\ now' = now + 1
    /\ UNCHANGED <<twoFrame, entries, envLeft, polled, w>>

\* another process creates, unlocks or deletes a file
TChange ==
    /\ envLeft > 0
    /\ \E i \in Threads : w[i].pc \in {"probe", "sleep", "asleep"}
    /\ \E n \in {"b.txt", "c.txt"} : \E e \in {File(now), LockedFile(now), Absent} :
         /\ e.kind # entries[n].kind \/ e.locked # entries[n].locked
         /\ entries' = [entries EXCEPT ![n] = e]
    /\ envLeft' = envLeft - 1
    /\ UNCHANGED <<twoFrame, now, polled, w>>

NextTwo ==
    \/ \E i \in Threads : TCall(i)
    \/ \E i \in Threads : TPoll(i)
    \/ \E i \in Threads : TProbe(i)
    \/ \E i \in Threads : TSleep(i)
    \/ \E i \in Threads : TWake(i)
    \/ TTick
    \/ TChange

SpecTwo == InitTwo /\ [][NextTwo]_vars

----------------------------------------------------------------------------
(* C11 *)

ThreadFound(i, f) == w[i].result = Return(JoinPath(FolderPath, f), 74)

\* C11: a file that one call has returned stays a candidate of the other
\* call: whenever the other call lists the file and the file is not in its
\* baseline, the file is among its new files, whether or not the first call
\* has already returned it.
C11_ReturnedStaysCandidate ==
    \A i \in Threads : \A j \in Threads \ {i} : \A f \in Names :
      (ThreadFound(i, f) /\ f \in w[j].current_files \ w[j].before_files)
        => f \in w[j].new_files

\* both calls were given the baseline [a.txt] and both returned the path of
\* the one new file b.txt, which appeared while they ran.
C11_Witness ==
    /\ arg_before = List({"a.txt"})
    /\ ThreadFound(1, "b.txt")
    /\ ThreadFound(2, "b.txt")
    /\ entries["b.txt"].ctime >= 0
    /\ entries["c.txt"].kind = "absent"

----------------------------------------------------------------------------
(* src/knime_framework/python_prepare_folders.py: PathInitializer and      *)
(* main().  The file system below os.getcwd() is the data root and what a  *)
(* previous run left under it.                                             *)

\* lines 39-41
DATA_FOLDER_NAME == "data"
DOWNLOAD_FOLDER_NAME == "download"
OUT_FOLDER_NAME == "output"

\* line 44
DEFAULT_TIMEZONE == "UTC"

\* line 80: pytz.all_timezones, the part the TimeZone enum names
AllTimezones == {"UTC", "US/Eastern", "Europe/Paris", "Asia/Tokyo"}

\* line 54: os.getcwd()
RootDir == "root"

\* line 63: datetime.now(tz).strftime(timestamp_format) of this run, and of
\* the run that left the old folder
NowStr == "20261105231500"
OldStr == "20261104120000"

\* lines 65-68
LocalDataDir == JoinPath(RootDir, DATA_FOLDER_NAME)
LocalTempDir == JoinPath(LocalDataDir, NowStr)
LocalDownloadDir == JoinPath(LocalTempDir, DOWNLOAD_FOLDER_NAME)
LocalOutputDir == JoinPath(LocalTempDir, OUT_FOLDER_NAME)

\* lines 136-141: the dict initialize() builds and returns
Paths ==
    [local_data_dir |-> LocalDataDir,
     local_temp_dir |-> LocalTempDir,
     local_download_dir |-> LocalDownloadDir,
     local_output_dir |-> LocalOutputDir]

\* initialize() has not returned; output table 0 is not set
NoPaths == [k \in DOMAIN Paths |-> None]
NoTable == [table |-> "none", rows |-> <<>>]

\* line 123: the dict's values in insertion order
PathOrder == <<LocalDataDir, LocalTempDir, LocalDownloadDir, LocalOutputDir>>

\* what a previous run left: the data root, an old run folder with a file in
\* it, and a file directly under the data root
OldRunDir == JoinPath(LocalDataDir, OldStr)
OldRunFile == JoinPath(OldRunDir, "f.csv")
OldFile == JoinPath(LocalDataDir, "g.txt")
OldPaths == {LocalDataDir, OldRunDir, OldRunFile, OldFile}

ParentOf(p) ==
    CASE p = OldRunFile -> OldRunDir
      [] p = OldRunDir -> LocalDataDir
      [] p = OldFile -> LocalDataDir
      [] OTHER -> RootDir

\* An old entry: its kind, and how its removal goes: "yes" (os.unlink or
\* os.rmdir succeeds), "chmod" (fails until os.chmod(path, stat.S_IWRITE):
\* a read-only entry), "never" (fails after chmod too: a file another
\* process holds open).  An entry that is gone keeps its class.
Gone == [kind |-> "absent", rm |-> "yes"]
OldEntry(k, r) == [kind |-> k, rm |-> r]
RmClasses == {"yes", "chmod", "never"}

Present(o, p) == o[p].kind # "absent"
ChildrenOf(o, p) == {c \in OldPaths : ParentOf(c) = p /\ Present(o, c)}

OldTrees ==
    {o \in [OldPaths -> {Gone} \cup {OldEntry(k, r) : k \in {"dir", "file"},
                                                     r \in RmClasses}] :
        /\ o[OldRunDir].kind \in {"absent", "dir"}
        /\ o[OldRunFile].kind \in {"absent", "file"}
        /\ o[OldFile].kind \in {"absent", "file"}
        /\ o[LocalDataDir].kind = "file" => o[LocalDataDir].rm = "yes"
        /\ \A p \in OldPaths \ {LocalDataDir} :
              Present(o, p) => o[ParentOf(p)].kind = "dir"}

\* the single watcher and the two threads are not run
NoWatch ==
    /\ pc = "off"
    /\ srcExists = FALSE
    /\ dstState = "dir"
    /\ folderExists = FALSE
    /\ entries = EmptyFolder
    /\ now = 0
    /\ ticks = 0
    /\ envLeft = 0
    /\ arg_before = NoList
    /\ file_name = None
    /\ callee = None
    /\ timeout = 0
    /\ check_interval = 1
    /\ before_files = {}
    /\ start_time = 0
    /\ current_files = {}
    /\ new_files = {}
    /\ valid_files = {}
    /\ todo = {}
    /\ handles = {}
    /\ result = Pending
    /\ polls = 0
    /\ sleeps = 0
    /\ probeLog = {}
    /\ existedAtCall = FALSE
    /\ polled = EmptyFolder
    /\ w = NoThreads

bootFrame == <<pc, fsVars, now, ticks, envLeft, argVars, localVars, handles,
               result, polls, sleeps, probeLog, existedAtCall, polled, w,
               latestVars>>

InitBoot ==
    /\ NoWatch
    /\ NoLatest
    /\ bpc = "start"
    /\ cwd \in {"ok", "readonly", "missing"}
    /\ old \in (IF cwd = "missing" THEN {[p \in OldPaths |-> Gone]} ELSE OldTrees)
    /\ visited = {}
    /\ made = {}
    /\ err = None
    /\ ret = NoPaths
    /\ out = NoTable

\* lines 80-81: the timezone test of set_timezone
TzValid(tz) == tz = "" \/ tz \in AllTimezones

\* line 157, lines 46-84: PathInitializer()
Construct ==
    /\ bpc = "start"
    /\ IF cwd = "missing"
       THEN err' = "FileNotFoundError" /\ bpc' = "except"
       ELSE IF ~TzValid(DEFAULT_TIMEZONE)
       THEN err' = "ValueError" /\ bpc' = "except"
       ELSE err' = err /\ bpc' = "constructed"
    /\ UNCHANGED <<bootFrame, cwd, old, visited, made, ret, out>>

\* lines 134 and 110-114: remove_folder_recursive up to the rmtree call
RemoveCheck ==
    /\ bpc = "constructed"
    /\ bpc' = IF Present(old, LocalDataDir) THEN "rmtree" ELSE "create"
    /\ UNCHANGED <<bootFrame, cwd, old, visited, made, err, ret, out>>

\* shutil.rmtree's first try at an entry: os.unlink of a file below the
\* root, os.rmdir of a directory that is empty by now
FirstTry(o, p) ==
    /\ o[p].kind = "file" => p # LocalDataDir
    /\ ChildrenOf(o, p) = {}
    /\ o[p].rm = "yes"

\* a handler that reports the failure and does not try again
HandlerGivesUp(o, p) == FALSE

\* lines 86-101: _handle_remove_readonly: chmod, then the failed call again;
\* TRUE when the second call removes the entry
HandleRemoveReadonly(o, p) ==
    /\ o[p].kind = "file" => p # LocalDataDir
    /\ ChildrenOf(o, p) = {}
    /\ o[p].rm \in {"yes", "chmod"}

\* line 111: shutil.rmtree deals with one entry, children before parents
RmtreeStep ==
    /\ bpc = "rmtree"
    /\ \E p \in OldPaths \ visited :
         /\ Present(old, p)
         /\ ChildrenOf(old, p) \subseteq visited
         /\ old' = IF FirstTry(old, p) \/ HandleRemoveReadonly(old, p)
                   THEN [old EXCEPT ![p].kind = "absent"] ELSE old
         /\ visited' = visited \cup {p}
         /\ bpc' = IF p = LocalDataDir THEN "create" ELSE "rmtree"
    /\ UNCHANGED <<bootFrame, cwd, made, err, ret, out>>

\* line 124: the outcome of os.makedirs(path, exist_ok=True)
MakedirsOutcome(o, p) ==
    IF o[LocalDataDir].kind = "file" THEN "FileExistsError"
    ELSE IF p = LocalDataDir /\ ~Present(o, p) /\ cwd = "readonly"
    THEN "PermissionError"
    ELSE "ok"

\* lines 123-124 and 144-146: one turn of the loop of
\* create_folders_from_dict; after the last one initialize() returns paths
MakeDir ==
    /\ bpc = "create"
    /\ LET k == Cardinality(made) + 1
           p == PathOrder[k]
           o == MakedirsOutcome(old, p)
       IN  IF o = "ok"
           THEN /\ made' = made \cup {p}
                /\ IF k = Len(PathOrder)
                   THEN ret' = Paths /\ bpc' = "returned"
                   ELSE ret' = ret /\ bpc' = "create"
                /\ err' = err
           ELSE /\ err' = o
                /\ bpc' = "except"
                /\ UNCHANGED <<made, ret>>
    /\ UNCHANGED <<bootFrame, cwd, old, visited, out>>

PathsTable(paths) == [table |-> "paths", rows |-> <<paths>>]
ErrorTable(e) ==
    [table |-> "error",
     rows |-> <<[error |-> "Folder initialization failed: " \o e]>>]

\* lines 163-170: main() after initialize() returned
OutputPaths ==
    /\ bpc = "returned"
    /\ out' = PathsTable(ret)
    /\ bpc' = "end"
    /\ UNCHANGED <<bootFrame, cwd, old, visited, made, err, ret>>

\* the exceptions that are instances of Exception
ExceptionClasses ==
    {"FileNotFoundError", "FileExistsError", "PermissionError", "ValueError"}

\* a handler for ValueError alone
CaughtValueError(e) == e = "ValueError"

\* line 172: except Exception
Caught(e) == e \in ExceptionClasses

\* lines 172-178: the handler of main()
HandleException ==
    /\ bpc = "except"
    /\ IF Caught(err)
       THEN out' = ErrorTable(err) /\ bpc' = "end"
       ELSE out' = out /\ bpc' = "propagated"
    /\ UNCHANGED <<bootFrame, cwd, old, visited, made, err, ret>>

NextBoot ==
    \/ Construct
    \/ RemoveCheck
    \/ RmtreeStep
    \/ MakeDir
    \/ OutputPaths
    \/ HandleException

SpecBoot == InitBoot /\ [][NextBoot]_vars

----------------------------------------------------------------------------
(* PathInitializer.initialize() and main()                                 *)

Initialized == bpc \in {"returned", "end"} /\ ret # NoPaths
AllExist == \A k \in 1..Len(PathOrder) : PathOrder[k] \in made
UnderRoot == OldPaths \ {LocalDataDir}

C13_OneTableAlways ==
    [][/\ bpc' # "propagated"
       /\ out # NoTable => out' = out
       /\ bpc' = "end" =>
            /\ Len(out'.rows) = 1
            /\ IF err' = None
               THEN out' = PathsTable(Paths) /\ AllExist'
               ELSE /\ out'.table = "error"
                    /\ DOMAIN out'.rows[1] = {"error"}
                    /\ ret' = NoPaths
       /\ bpc' = "except" => err' # None]_vars

C13_Witness ==
    /\ bpc = "end"
    /\ err = "FileExistsError"
    /\ out.table = "error"
    /\ old[LocalDataDir].kind = "file"

----------------------------------------------------------------------------
(* C14 *)

CeilDiv(a, b) == (a + b - 1) \div b

\* C14: a call on an existing folder ends by returning a path or the timeout
\* result, after at most ceil(timeout / poll_interval) polls; with timeout 0
\* it takes no poll and returns the timeout result.
C14_EndsWithPathOrTimeout ==
    (Done /\ existedAtCall /\ folderExists) =>
      /\ result.kind = "return"
      /\ polls <= CeilDiv(timeout, check_interval)
      /\ timeout = 0 => polls = 0 /\ TimedOut

----------------------------------------------------------------------------
(* src/file_operations/get_latest_file.py: get_new_file(directory,         *)
(* before_files, timeout, check_interval) on the folder of the model, with *)
(* other processes changing the folder while it polls.                     *)

\* the argument before_files: a set of names
BeforeSets == {List({}), List({"a.txt"}), List({"a.txt", "c.txt"})}

\* what get_new_file does not use
newIdle == <<srcExists, dstState, valid_files, todo, handles, probeLog, otherVars>>

InitNew ==
    /\ pc = "new_ready"
    /\ srcExists = FALSE
    /\ dstState = "dir"
    /\ folderExists \in BOOLEAN
    /\ entries \in (IF folderExists THEN InitialFolders ELSE {EmptyFolder})
    /\ now = 0
    /\ ticks = 0
    /\ envLeft = MaxEnv
    /\ arg_before \in BeforeSets
    /\ file_name = None
    /\ callee = "get_new_file"
    /\ timeout \in 0..MaxTimeout
    /\ check_interval \in 1..MaxInterval
    /\ before_files = {}
    /\ start_time = 0
    /\ current_files = {}
    /\ new_files = {}
    /\ valid_files = {}
    /\ todo = {}
    /\ handles = {}
    /\ result = Pending
    /\ polls = 0
    /\ sleeps = 0
    /\ probeLog = {}
    /\ existedAtCall = FALSE
    /\ polled = EmptyFolder
    /\ w = NoThreads
    /\ NoBoot
    /\ NoLatest

\* lines 32 and 44: the parameters are bound, the clock is read
NewCall ==
    /\ pc = "new_ready"
    /\ before_files' = arg_before.names
    /\ start_time' = now
    /\ existedAtCall' = folderExists
    /\ pc' = "new_loop"
    /\ UNCHANGED <<folderExists, entries, now, ticks, envLeft, argVars,
                   current_files, new_files, polled, result, polls, sleeps,
                   newIdle>>

\* lines 46-50 and 58-59: the loop test, the listing and the difference
NewPoll ==
    /\ pc = "new_loop"
    /\ IF ~(now - start_time < timeout)
       THEN /\ result' = Return(None, 59)
            /\ pc' = "done"
            /\ UNCHANGED <<current_files, new_files, polled, polls>>
       ELSE IF ~folderExists
       THEN /\ result' = Raise("FileNotFoundError", 47)
            /\ pc' = "done"
            /\ UNCHANGED <<current_files, new_files, polled, polls>>
       ELSE /\ current_files' = ListDir
            /\ new_files' = current_files' \ before_files
            /\ polled' = entries
            /\ polls' = polls + 1
            /\ pc' = IF new_files' # {} THEN "new_ctime" ELSE "new_sleep"
            /\ UNCHANGED result
    /\ UNCHANGED <<folderExists, entries, now, ticks, envLeft, argVars,
                   before_files, start_time, existedAtCall, sleeps, newIdle>>

\* line 51: the names max() can return: a name of S whose creation time no
\* other name of S exceeds (among equal ones, the first the set yields)
MaxByCtime(S) == {f \in S : \A g \in S : entries[g].ctime <= entries[f].ctime}

\* lines 51-54: os.path.getctime of every new name, the greatest one joined
\* to the directory and returned; getctime of a name that is no longer there
\* raises FileNotFoundError
NewLatest ==
    /\ pc = "new_ctime"
    /\ IF \E f \in new_files : entries[f].kind = "absent"
       THEN result' = Raise("FileNotFoundError", 51)
       ELSE \E f \in MaxByCtime(new_files) :
              result' = Return(JoinPath(FolderPath, f), 54)
    /\ pc' = "done"
    /\ UNCHANGED <<folderExists, entries, now, ticks, envLeft, argVars,
                   localVars, existedAtCall, polls, sleeps, handles, probeLog,
                   srcExists, dstState, otherVars>>

\* line 56: time.sleep(check_interval)
NewSleep ==
    /\ pc = "new_sleep"
    /\ now' = now + check_interval
    /\ sleeps' = sleeps + 1
    /\ pc' = "new_loop"
    /\ UNCHANGED <<folderExists, entries, ticks, envLeft, argVars, localVars,
                   existedAtCall, result, polls, handles, probeLog, srcExists,
                   dstState, otherVars>>

NextNew ==
    \/ NewCall
    \/ NewPoll
    \/ NewLatest
    \/ NewSleep
    \/ Tick
    \/ CreateEntry
    \/ RenameEntry
    \/ DeleteEntry
    \/ SetLock
    \/ RemoveFolder

SpecNew == InitNew /\ [][NextNew]_vars

----------------------------------------------------------------------------
(* src/file_operations/waitforfile.py: wait_for_file_exists(file_path,     *)
(* timeout) and wait_for_file_validation(file_path, timeout,               *)
(* check_interval), with file_path an entry of the folder of the model.    *)

\* line 16
CHECK_INTERVAL == 1

WaitFunctions == {"wait_for_file_exists", "wait_for_file_validation"}

\* the names file_path is drawn from
WaitedNames == {"b.txt", "c.txt"}

\* lines 22 and 103: the argument of time.sleep
Interval ==
    IF callee = "wait_for_file_exists" THEN CHECK_INTERVAL ELSE check_interval

\* lines 20/24 and 99/105: the lines of the returns
TrueLine == IF callee = "wait_for_file_exists" THEN 20 ELSE 99
FalseLine == IF callee = "wait_for_file_exists" THEN 24 ELSE 105

\* lines 19 and 96: os.path.exists(file_path)
PathExists == folderExists /\ entries[file_name].kind # "absent"

waitIdle == <<srcExists, dstState, before_files, current_files, new_files,
              valid_files, todo, handles, otherVars>>

InitWait ==
    /\ pc = "wait_ready"
    /\ callee \in WaitFunctions
    /\ srcExists = FALSE
    /\ dstState = "dir"
    /\ folderExists \in BOOLEAN
    /\ entries \in (IF folderExists THEN InitialFolders ELSE {EmptyFolder})
    /\ now = 0
    /\ ticks = 0
    /\ envLeft = MaxEnv
    /\ arg_before = NoList
    /\ file_name \in WaitedNames
    /\ timeout \in 0..MaxTimeout
    /\ check_interval \in (IF callee = "wait_for_file_exists" THEN {CHECK_INTERVAL}
                           ELSE 1..MaxInterval)
    /\ before_files = {}
    /\ start_time = 0
    /\ current_files = {}
    /\ new_files = {}
    /\ valid_files = {}
    /\ todo = {}
    /\ handles = {}
    /\ result = Pending
    /\ polls = 0
    /\ sleeps = 0
    /\ probeLog = {}
    /\ existedAtCall = FALSE
    /\ polled = EmptyFolder
    /\ w = NoThreads
    /\ NoBoot
    /\ NoLatest

\* lines 15-16 and 94
WaitCall ==
    /\ pc = "wait_ready"
    /\ start_time' = now
    /\ existedAtCall' = PathExists
    /\ pc' = "wait_loop"
    /\ UNCHANGED <<folderExists, entries, now, ticks, envLeft, argVars, polled,
                   result, polls, sleeps, probeLog, waitIdle>>

\* lines 18-20, 24 and 95-96, 105: the loop test and os.path.exists
WaitPoll ==
    /\ pc = "wait_loop"
    /\ IF ~(now - start_time < timeout)
       THEN /\ result' = Return("False", FalseLine)
            /\ pc' = "done"
            /\ UNCHANGED <<polled, polls>>
       ELSE /\ polled' = entries
            /\ polls' = polls + 1
            /\ IF ~PathExists
               THEN pc' = "wait_sleep" /\ UNCHANGED result
               ELSE IF callee = "wait_for_file_exists"
               THEN result' = Return("True", TrueLine) /\ pc' = "done"
               ELSE pc' = "wait_probe" /\ UNCHANGED result
    /\ UNCHANGED <<folderExists, entries, now, ticks, envLeft, argVars,
                   start_time, existedAtCall, sleeps, probeLog, waitIdle>>

\* a handler for PermissionError alone
CaughtPermissionOnly(exc) == exc = "PermissionError"

\* line 100: except Exception
ValidationCaught(exc) ==
    exc \in {"PermissionError", "IsADirectoryError", "FileNotFoundError"}

\* lines 97-101: the open of wait_for_file_validation; the with block closes
\* the file on the return
WaitProbe ==
    /\ pc = "wait_probe"
    /\ \E o \in OpenOutcomes(entries[file_name]) :
         /\ probeLog' = probeLog \cup {o}
         /\ IF o = "ok"
            THEN result' = Return("True", TrueLine) /\ pc' = "done"
            ELSE IF ValidationCaught(o)
            THEN pc' = "wait_sleep" /\ UNCHANGED result
            ELSE result' = Raise(o, 98) /\ pc' = "done"
    /\ UNCHANGED <<folderExists, entries, now, ticks, envLeft, argVars,
                   start_time, existedAtCall, polled, polls, sleeps, waitIdle>>

\* lines 22 and 103
WaitSleep ==
    /\ pc = "wait_sleep"
    /\ now' = now + Interval
    /\ sleeps' = sleeps + 1
    /\ pc' = "wait_loop"
    /\ UNCHANGED <<folderExists, entries, ticks, envLeft, argVars, start_time,
                   existedAtCall, polled, result, polls, probeLog, waitIdle>>

NextWait ==
    \/ WaitCall
    \/ WaitPoll
    \/ WaitProbe
    \/ WaitSleep
    \/ Tick
    \/ CreateEntry
    \/ RenameEntry
    \/ DeleteEntry
    \/ SetLock
    \/ RemoveFolder

SpecWait == InitWait /\ [][NextWait]_vars

----------------------------------------------------------------------------
(* C15 *)

\* C15: get_new_file returns, at the first poll whose listing holds a name
\* that is not in before_files, the full path of the new entry with the
\* greatest creation time, whatever its suffix; it returns None only when
\* the elapsed time is at least timeout and no poll saw a new entry; and
\* before_files is as the caller passed it.
C15_FirstNewLatestReturned ==
    /\ pc # "new_ready" => before_files = arg_before.names
    /\ (Done /\ existedAtCall /\ folderExists) =>
         /\ result.kind = "return"
         /\ result.value = None =>
              /\ now - start_time >= timeout
              /\ new_files = {}
         /\ new_files # {} =>
              \E f \in new_files :
                 /\ result.value = JoinPath(FolderPath, f)
                 /\ \A g \in new_files : polled[g].ctime <= polled[f].ctime

----------------------------------------------------------------------------
(* C16 *)

Validating == callee = "wait_for_file_validation"
There(e) == e.kind # "absent"

\* the call ends in this step, with value v
Returns(v) == result = Pending /\ result' = Return(v, result'.line)

\* the open probe of wait_for_file_validation is done in this step
Probed == pc = "wait_probe" /\ pc' # pc

\* C16: every poll is taken while the elapsed time is below timeout; a poll
\* of wait_for_file_exists that finds the path returns True, and so does a
\* probe of wait_for_file_validation that can open it; True is returned only
\* so, after a poll that found the path (and, for validation, by an open that
\* succeeds); False is returned only when the elapsed time is at least
\* timeout; no failed probe raises, the call sleeps and polls again.  A
\* path that is there from the start of the call and stays as it is (for
\* validation: an openable file) gives True whenever timeout > 0.
C16_TrueIffSeenInTime ==
    [][/\ polls' = polls + 1 =>
            /\ now - start_time < timeout
            /\ (~Validating /\ There(entries[file_name])) => Returns("True")
       /\ (Probed /\ Openable(entries[file_name])) => Returns("True")
       /\ Returns("True") =>
            /\ polls' > 0
            /\ There(polled'[file_name])
            /\ Validating => Openable(entries[file_name])
       /\ Returns("False") => now - start_time >= timeout
       /\ result'.kind # "raise"
       /\ (Probed /\ ~Openable(entries[file_name])) =>
            /\ pc' = "wait_sleep"
            /\ result' = Pending
       /\ (pc' = "done" /\ timeout > 0 /\ existedAtCall /\ envLeft = MaxEnv
             /\ (Validating => Openable(entries[file_name]))) =>
            result'.value = "True"]_vars

\* validation saw the path held by a writer, slept, and then opened it
C16_Witness ==
    /\ Validating
    /\ pc = "done"
    /\ result = Return("True", 99)
    /\ probeLog = {"PermissionError", "ok"}
    /\ sleeps = 1
    /\ polls = 2

----------------------------------------------------------------------------
(* src/file_operations/get_latest_file.py: get_latest_file(directory).     *)
(* The directory is absent, a regular file, or a directory of regular      *)
(* files and subdirectories with modification times; another process may   *)
(* change it once while the call runs.                                     *)

MaxMtime == 2

LatestNames == {"a.txt", "b.txt", "c.txt"}

NoEntry == [kind |-> "absent", mtime |-> 0]
FileAt(m) == [kind |-> "file", mtime |-> m]
DirAt(m) == [kind |-> "dir", mtime |-> m]

NoEntries == [n \in LatestNames |-> NoEntry]

Directories ==
    {[kind |-> k, ents |-> NoEntries] : k \in {"absent", "file"}}
      \cup {[kind |-> "dir", ents |-> e] :
              e \in [LatestNames -> {NoEntry} \cup {FileAt(m) : m \in 1..MaxMtime}
                                      \cup {DirAt(m) : m \in 1..MaxMtime}]}

InitLatest ==
    /\ NoWatch
    /\ NoBoot
    /\ lpc = "check"
    /\ directory \in Directories
    /\ files = {}
    /\ latest_file = Pending
    /\ changed = FALSE

latestFrame == <<pc, fsVars, now, ticks, envLeft, argVars, localVars, handles,
                 result, polls, sleeps, probeLog, existedAtCall, w, bootVars>>

\* line 18: path.exists(directory) and path.isdir(directory)
IsDirectory(d) == d.kind # "absent" /\ d.kind = "dir"

\* lines 18-20
LatestCheck ==
    /\ lpc = "check"
    /\ IF ~IsDirectory(directory)
       THEN latest_file' = Return(None, 20) /\ lpc' = "done"
       ELSE latest_file' = latest_file /\ lpc' = "list"
    /\ UNCHANGED <<directory, files, changed, latestFrame>>

\* a filter that keeps every entry
AnyEntry(e) == e.kind # "absent"

\* line 22: path.isfile
IsFile(e) == e.kind = "file"

\* the name a joined path ends in
NameOf(p) == CHOOSE n \in LatestNames : JoinPath(FolderPath, n) = p

\* lines 22-26: the listing, filtered and joined to the directory, and the
\* test for an empty list
LatestList ==
    /\ lpc = "list"
    /\ IF directory.kind # "dir"
       THEN /\ latest_file' = Raise("FileNotFoundError", 22)
            /\ lpc' = "done"
            /\ UNCHANGED files
       ELSE /\ files' = {JoinPath(FolderPath, n) :
                           n \in {m \in LatestNames : IsFile(directory.ents[m])}}
            /\ IF files' = {}
               THEN latest_file' = Return(None, 26) /\ lpc' = "done"
               ELSE latest_file' = latest_file /\ lpc' = "max"
    /\ UNCHANGED <<directory, changed, latestFrame>>

\* line 28: the paths max(files, key=os.path.getmtime) can return
MaxByMtime(S) ==
    {p \in S : \A q \in S :
        directory.ents[NameOf(q)].mtime <= directory.ents[NameOf(p)].mtime}

\* lines 28-30: os.path.getmtime of every path of files; a path that is no
\* longer there raises FileNotFoundError
LatestMax ==
    /\ lpc = "max"
    /\ IF \E p \in files : directory.ents[NameOf(p)].kind = "absent"
       THEN latest_file' = Raise("FileNotFoundError", 28)
       ELSE \E p \in MaxByMtime(files) : latest_file' = Return(p, 30)
    /\ lpc' = "done"
    /\ UNCHANGED <<directory, files, changed, latestFrame>>

\* another process deletes an entry, removes the directory, writes to a file
\* or creates one, between two steps of the call
LatestChange ==
    /\ lpc \in {"list", "max"}
    /\ ~changed
    /\ directory.kind = "dir"
    /\ \/ \E n \in LatestNames :
            /\ directory.ents[n].kind # "absent"
            /\ directory' = [directory EXCEPT !.ents[n] = NoEntry]
       \/ directory' = [kind |-> "absent", ents |-> NoEntries]
       \/ \E n \in LatestNames :
            /\ directory.ents[n].kind = "file"
            /\ directory' = [directory EXCEPT !.ents[n].mtime = MaxMtime + 1]
       \/ \E n \in LatestNames :
            /\ directory.ents[n].kind = "absent"
            /\ directory' = [directory EXCEPT !.ents[n] = FileAt(MaxMtime + 1)]
    /\ changed' = TRUE
    /\ UNCHANGED <<lpc, files, latest_file, latestFrame>>

NextLatest ==
    \/ LatestCheck
    \/ LatestList
    \/ LatestMax
    \/ LatestChange

SpecLatest == InitLatest /\ [][NextLatest]_vars

----------------------------------------------------------------------------
(* C17 *)

\* the regular files of the directory
Regular == {n \in LatestNames : directory.ents[n].kind = "file"}

\* C17: for a directory that no other process changes during the call,
\* get_latest_file ends without raising; it returns None when the directory
\* does not exist, is not a directory or holds no regular file, and
\* otherwise the full path of a regular file of the directory whose
\* modification time no other regular file exceeds, never that of a
\* subdirectory.
C17_LatestRegularFile ==
    (lpc = "done" /\ ~changed) =>
      /\ latest_file.kind = "return"
      /\ IF directory.kind # "dir" \/ Regular = {}
         THEN latest_file.value = None
         ELSE \E n \in Regular :
                /\ latest_file.value = FolderPath \o "/" \o n
                /\ \A m \in Regular :
                     directory.ents[m].mtime <= directory.ents[n].mtime

\* b.txt is returned although the subdirectory c.txt was modified later
C17_Witness ==
    /\ lpc = "done"
    /\ ~changed
    /\ latest_file = Return("dl/b.txt", 30)
    /\ directory.ents["a.txt"] = FileAt(1)
    /\ directory.ents["b.txt"] = FileAt(2)
    /\ directory.ents["c.txt"] = DirAt(2)

====
